---- MODULE Spec2Model ----
(***************************************************************************)
(* The accounts application of bank_application: registration, login,      *)
(* logout, the home view and the deposit/withdraw transaction view, over   *)
(* the User, Account and Transaction tables.                               *)
(*                                                                         *)
(* Money is counted in hundredths (DecimalField, decimal_places = 2), so a *)
(* balance or an amount is an integer.  A client is one browser session    *)
(* issuing one request at a time; requests of different clients interleave *)
(* at the database operations of the views.                                *)
(***************************************************************************)
EXTENDS Integers, Sequences, FiniteSets, TLC

\* ---- bounds of the model: the transaction requests accepted in a run of
\* the whole application (Spec) and of the ledger alone (LedgerSpec)
MaxLedger == 1
MaxRows == 2

\* ---- the inputs
Usernames == {"alice", "bob"}
Clients == {"c1", "c2"}
AnonymousUser == "AnonymousUser"
\* the passwords users choose, and what can be typed into a password field
Passwords == {"pw1"}
Typed == Passwords \cup {"typo"}
\* amounts in hundredths that a client may type, as a decimal with two places
\* (all of them within max_digits = 10; the sums stay within it too)
Amounts == {-1, 0, 1}

\* forms.py 11-14, TransactionForm.TRANSACTION_TYPES: the values of the choices
TRANSACTION_TYPES == {"deposit", "withdraw"}

\* A request is a GET, or a POST with the form's fields.
GET == [method |-> "GET"]

RegistrationRequests ==
    {GET} \cup [method : {"POST"}, username : Usernames,
                password1 : Passwords, password2 : Typed]

LoginRequests ==
    {GET} \cup [method : {"POST"}, username : Usernames, password : Typed]

\* What a client can post to the transaction view: a transaction_type, among
\* the choices or not, and an amount text that either parses as a decimal with
\* two places (its value in hundredths) or does not.
TransactionRequests ==
    {GET}
    \cup [method : {"POST"}, transaction_type : TRANSACTION_TYPES,
          amount : [wellformed : {TRUE}, value : Amounts]]
    \cup {[method |-> "POST", transaction_type |-> "transfer",
           amount |-> [wellformed |-> TRUE, value |-> 1]],
          [method |-> "POST", transaction_type |-> "deposit",
           amount |-> [wellformed |-> FALSE, value |-> 0]]}

VARIABLES
    User,         \* auth_user: set of [username, password]
    Account,      \* accounts_account: sequence of [user, balance], pk = index
    Transaction,  \* accounts_transaction: sequence of rows, pk = index
    clock,        \* the latest value timezone.now() has returned
    session,      \* client -> the username its session is logged in as
    req,          \* client -> the request it has in flight (or idle)
    last          \* the step just taken and what it answered or stored

vars == <<User, Account, Transaction, clock, session, req, last>>

Idle == [view |-> "idle"]

Init ==
    /\ User = {}
    /\ Account = <<>>
    /\ Transaction = <<>>
    /\ clock = 0
    /\ session = [c \in Clients |-> AnonymousUser]
    /\ req = [c \in Clients |-> Idle]
    /\ last = [op |-> "init", client |-> "none", status |-> "none"]

\* ---- the framework's queries, as the views use them

\* the view without its @login_required decorator
login_required_missing(c) == TRUE

\* @login_required: the request's user is authenticated
login_required(c) == session[c] # AnonymousUser

\* Account.objects.get(user=u): the pks of the rows it matches; get raises
\* unless there is exactly one
AccountsOf(u) == {i \in 1..Len(Account) : Account[i].user = u}

\* Transaction.objects.filter(account=a)
TransactionsOf(a) == {i \in 1..Len(Transaction) : Transaction[i].account = a}

\* UserRegistrationForm(request.POST).is_valid(): the two passwords agree and
\* the username is not taken
UserRegistrationForm_is_valid(post) ==
    /\ post.password1 = post.password2
    /\ \A u \in User : u.username # post.username

\* TransactionForm(request.POST).is_valid(): transaction_type is one of the
\* choices and amount parses as a decimal
TransactionForm_is_valid(post) ==
    /\ post.transaction_type \in TRANSACTION_TYPES
    /\ post.amount.wellformed

\* authenticate(username, password)
authenticate(username, password) ==
    [username |-> username, password |-> password] \in User

\* the withdraw branch without its balance check
branch_unchecked(balance, transaction_type, amount) ==
    IF transaction_type = "deposit" THEN "add"
    ELSE IF transaction_type = "withdraw" THEN "subtract"
    ELSE "skip"

\* the withdraw branch with its comparison turned round
branch_flipped(balance, transaction_type, amount) ==
    IF transaction_type = "deposit" THEN "add"
    ELSE IF transaction_type = "withdraw" /\ amount >= balance THEN "subtract"
    ELSE "skip"

\* views.py 52 and 54: which branch a valid request takes on a balance
branch(balance, transaction_type, amount) ==
    IF transaction_type = "deposit" THEN "add"
    ELSE IF transaction_type = "withdraw" /\ balance >= amount THEN "subtract"
    ELSE "skip"

\* the deposit branch setting the balance to the amount
apply_deposit_overwrites(balance, transaction_type, amount) ==
    CASE branch(balance, transaction_type, amount) = "add" -> amount
      [] branch(balance, transaction_type, amount) = "subtract" -> balance - amount
      [] OTHER -> balance

\* the withdraw branch adding the amount
apply_withdraw_adds(balance, transaction_type, amount) ==
    CASE branch(balance, transaction_type, amount) = "add" -> balance + amount
      [] branch(balance, transaction_type, amount) = "subtract" -> balance + amount
      [] OTHER -> balance

\* views.py 52-55: the balance of the in-memory account after the branch
apply_transaction(balance, transaction_type, amount) ==
    CASE branch(balance, transaction_type, amount) = "add" -> balance + amount
      [] branch(balance, transaction_type, amount) = "subtract" -> balance - amount
      [] OTHER -> balance

\* the view without its account.save()
Account_save_skipped(table, obj) == table

\* an update of the balance that is not filtered by pk
Account_save_all(table, obj) ==
    [i \in DOMAIN table |-> [user |-> table[i].user, balance |-> obj.balance]]

\* account.save(): the row of the in-memory object's pk takes its fields
Account_save(table, obj) ==
    [table EXCEPT ![obj.id] = [user |-> obj.user, balance |-> obj.balance]]

\* the account created in the form's save and again in the view
Account_objects_create_twice(table, user) ==
    Append(Append(table, [user |-> user, balance |-> 0]),
           [user |-> user, balance |-> 0])

\* Account.objects.create(user=user): one new row with the default balance
Account_objects_create(table, user) ==
    Append(table, [user |-> user, balance |-> 0])

\* Transaction.objects.create(account=, amount=, transaction_type=), created_at
\* set to now (auto_now_add)
Transaction_objects_create(table, account, amount, transaction_type, now) ==
    Append(table, [id |-> Len(table) + 1, account |-> account, amount |-> amount,
                   transaction_type |-> transaction_type, created_at |-> now])

\* .order_by('created_at'): oldest first
order_by_created_at_asc(ids) ==
    {s \in [1..Cardinality(ids) -> ids] :
        /\ \A i, j \in 1..Cardinality(ids) : i # j => s[i] # s[j]
        /\ \A i \in 1..(Cardinality(ids) - 1) :
              Transaction[s[i]].created_at <= Transaction[s[i + 1]].created_at}

\* .order_by('-created_at'): every listing of the rows with created_at
\* descending; rows with equal created_at come in any order
order_by_created_at_desc(ids) ==
    {s \in [1..Cardinality(ids) -> ids] :
        /\ \A i, j \in 1..Cardinality(ids) : i # j => s[i] # s[j]
        /\ \A i \in 1..(Cardinality(ids) - 1) :
              Transaction[s[i]].created_at >= Transaction[s[i + 1]].created_at}

\* the transaction requests that have read their account and not yet answered
InFlightTransactions == {c \in Clients : req[c].view = "transaction"}

\* ---- views.py 8-18: register
\* lines 9-11 and 16-18: a GET or an invalid form renders the form; a valid
\* form goes on to form.save()
register(c, request) ==
    /\ req[c] = Idle
    /\ IF request.method = "POST" /\ UserRegistrationForm_is_valid(request)
       THEN /\ req' = [req EXCEPT ![c] = [view |-> "register", pc |-> "form_save",
                                          username |-> request.username,
                                          password |-> request.password1]]
            /\ last' = [op |-> "register", client |-> c, status |-> "valid"]
       ELSE /\ req' = req
            /\ last' = [op |-> "register", client |-> c, status |-> "render"]
    /\ UNCHANGED <<User, Account, Transaction, clock, session>>

\* line 12: user = form.save(); the username column is unique, so the insert
\* of a name another request has inserted since validation raises
register_form_save(c) ==
    /\ req[c].view = "register"
    /\ req[c].pc = "form_save"
    /\ IF \E u \in User : u.username = req[c].username
       THEN /\ req' = [req EXCEPT ![c] = Idle]
            /\ last' = [op |-> "register", client |-> c, status |-> "error"]
            /\ User' = User
       ELSE /\ User' = User \cup {[username |-> req[c].username,
                                   password |-> req[c].password]}
            /\ req' = [req EXCEPT ![c].pc = "create"]
            /\ last' = [op |-> "register", client |-> c, status |-> "user_saved"]
    /\ UNCHANGED <<Account, Transaction, clock, session>>

\* lines 13-15: Account.objects.create(user=user); login(request, user);
\* redirect('home')
register_create(c) ==
    /\ req[c].view = "register"
    /\ req[c].pc = "create"
    /\ Account' = Account_objects_create(Account, req[c].username)
    /\ session' = [session EXCEPT ![c] = req[c].username]
    /\ req' = [req EXCEPT ![c] = Idle]
    /\ last' = [op |-> "register", client |-> c, status |-> "redirect_home",
                username |-> req[c].username]
    /\ UNCHANGED <<User, Transaction, clock>>

\* ---- views.py 20-32: user_login
user_login(c, request) ==
    /\ req[c] = Idle
    /\ IF request.method = "POST" /\ authenticate(request.username, request.password)
       THEN /\ session' = [session EXCEPT ![c] = request.username]
            /\ last' = [op |-> "user_login", client |-> c, status |-> "redirect_home"]
       ELSE /\ session' = session
            /\ last' = [op |-> "user_login", client |-> c, status |-> "render"]
    /\ UNCHANGED <<User, Account, Transaction, clock, req>>

\* ---- views.py 34-36: user_logout
user_logout(c) ==
    /\ req[c] = Idle
    /\ session' = [session EXCEPT ![c] = AnonymousUser]
    /\ last' = [op |-> "user_logout", client |-> c, status |-> "redirect_login"]
    /\ UNCHANGED <<User, Account, Transaction, clock, req>>

\* ---- views.py 38-42: home
\* The answer carries the account row and the listed transactions, or nothing.
home(c) ==
    /\ req[c] = Idle
    /\ IF ~login_required(c)
       THEN last' = [op |-> "home", client |-> c, status |-> "redirect_login",
                     account |-> <<>>, transactions |-> <<>>]
       ELSE IF Cardinality(AccountsOf(session[c])) # 1
       THEN last' = [op |-> "home", client |-> c, status |-> "error",
                     account |-> <<>>, transactions |-> <<>>]
       ELSE LET id == CHOOSE i \in AccountsOf(session[c]) : TRUE
            IN \E s \in order_by_created_at_desc(TransactionsOf(id)) :
                  last' = [op |-> "home", client |-> c, status |-> "render",
                           account |-> <<[id |-> id, user |-> Account[id].user,
                                          balance |-> Account[id].balance]>>,
                           transactions |-> [i \in DOMAIN s |-> Transaction[s[i]]]]
    /\ UNCHANGED <<User, Account, Transaction, clock, session, req>>

\* ---- views.py 44-61: transaction
\* lines 44-55 and 59-61: the access check, the form, Account.objects.get and
\* the branch on transaction_type, which leave the new balance in the
\* in-memory account.  read, rows, branch and alone record, for the
\* properties, the balance and the number of ledger rows the request found,
\* the branch it took and whether another request has written to the same
\* account since.
transaction(c, request) ==
    /\ req[c] = Idle
    /\ IF ~login_required(c)
       THEN /\ req' = req
            /\ last' = [op |-> "transaction", client |-> c, status |-> "redirect_login"]
       ELSE IF request.method # "POST"
       THEN /\ req' = req
            /\ last' = [op |-> "transaction", client |-> c, status |-> "render"]
       ELSE IF ~TransactionForm_is_valid(request)
       THEN /\ req' = req
            /\ last' = [op |-> "transaction", client |-> c, status |-> "form_errors"]
       ELSE IF Cardinality(AccountsOf(session[c])) # 1
       THEN /\ req' = req
            /\ last' = [op |-> "transaction", client |-> c, status |-> "error"]
       ELSE /\ LET id == CHOOSE i \in AccountsOf(session[c]) : TRUE
                   obj == [id |-> id, user |-> Account[id].user,
                           balance |-> apply_transaction(Account[id].balance,
                                           request.transaction_type, request.amount.value)]
               IN /\ req' = [req EXCEPT ![c] =
                                [view |-> "transaction", pc |-> "save",
                                 user |-> session[c], post |-> request, account |-> obj,
                                 read |-> Account[id].balance,
                                 branch |-> branch(Account[id].balance,
                                     request.transaction_type, request.amount.value),
                                 rows |-> Cardinality(TransactionsOf(id)),
                                 alone |-> TRUE]]
                  /\ last' = [op |-> "transaction", client |-> c, status |-> "read"]
    /\ UNCHANGED <<User, Account, Transaction, clock, session>>

\* a write of client c to account a is seen by the other requests in flight on a
Interleave(c, a, r) ==
    [d \in Clients |->
        IF d = c THEN r
        ELSE IF req[d].view = "transaction" /\ req[d].account.id = a
        THEN [req[d] EXCEPT !.alone = FALSE]
        ELSE req[d]]

\* line 56: account.save()
transaction_save(c) ==
    /\ req[c].view = "transaction"
    /\ req[c].pc = "save"
    /\ Account' = Account_save(Account, req[c].account)
    /\ req' = Interleave(c, req[c].account.id, [req[c] EXCEPT !.pc = "create"])
    /\ last' = [op |-> "transaction", client |-> c, status |-> "saved",
                post |-> req[c].post,
                account |-> req[c].account.id, read |-> req[c].read,
                branch |-> req[c].branch, rows |-> req[c].rows,
                alone |-> req[c].alone]
    /\ UNCHANGED <<User, Transaction, clock, session>>

\* lines 57-58: Transaction.objects.create(...); redirect('home').  The clock
\* has either moved on since the last created_at was taken or it has not.
transaction_create(c) ==
    /\ req[c].view = "transaction"
    /\ req[c].pc = "create"
    /\ \E now \in {clock, clock + 1} :
          /\ clock' = now
          /\ Transaction' = Transaction_objects_create(Transaction, req[c].account.id,
                                req[c].post.amount.value, req[c].post.transaction_type, now)
    /\ req' = Interleave(c, req[c].account.id, Idle)
    /\ last' = [op |-> "transaction", client |-> c, status |-> "redirect_home",
                post |-> req[c].post,
                account |-> req[c].account.id, read |-> req[c].read,
                branch |-> req[c].branch, rows |-> req[c].rows,
                alone |-> req[c].alone]
    /\ UNCHANGED <<User, Account, session>>

\* the ledger rows written or about to be written are fewer than n
Room(n) == Len(Transaction) + Cardinality(InFlightTransactions) < n

Next ==
    \/ \E c \in Clients, request \in RegistrationRequests : register(c, request)
    \/ \E c \in Clients : register_form_save(c)
    \/ \E c \in Clients : register_create(c)
    \/ \E c \in Clients, request \in LoginRequests : user_login(c, request)
    \/ \E c \in Clients : user_logout(c)
    \/ \E c \in Clients : home(c)
    \/ Room(MaxLedger) /\ \E c \in Clients, request \in TransactionRequests :
          transaction(c, request)
    \/ \E c \in Clients : transaction_save(c)
    \/ \E c \in Clients : transaction_create(c)

Spec == Init /\ [][Next]_vars

\* ---- the ledger alone: alice and then bob have registered, c1 is logged in
\* as alice and c2 has just logged in as alice or as bob, and the clients use
\* the home and the transaction views
LedgerInit ==
    /\ User = [username : Usernames, password : Passwords]
    /\ Account = <<[user |-> "alice", balance |-> 0], [user |-> "bob", balance |-> 0]>>
    /\ Transaction = <<>>
    /\ clock = 0
    /\ session \in {[c \in Clients |-> "alice"],
                    [c \in Clients |-> IF c = "c1" THEN "alice" ELSE "bob"]}
    /\ req = [c \in Clients |-> Idle]
    /\ last = [op |-> "user_login", client |-> "c2", status |-> "redirect_home"]

LedgerNext ==
    \/ \E c \in Clients : home(c)
    \/ Room(MaxRows) /\ \E c \in Clients, request \in TransactionRequests :
          transaction(c, request)
    \/ \E c \in Clients : transaction_save(c)
    \/ \E c \in Clients : transaction_create(c)

LedgerSpec == LedgerInit /\ [][LedgerNext]_vars

\* ---- the properties

\* the step just taken is the given step of a transaction request
Saved == last.op = "transaction" /\ last.status = "saved"
Completed == last.op = "transaction" /\ last.status = "redirect_home"
LastRow == Transaction[Len(Transaction)]

\* the request that has just completed appended exactly one row, its own
OneRowAppended ==
    /\ Cardinality(TransactionsOf(last.account)) = last.rows + 1
    /\ LastRow.account = last.account
    /\ LastRow.amount = last.post.amount.value
    /\ LastRow.transaction_type = last.post.transaction_type

\* C1: when a valid deposit completes with no other request having written to
\* the account since the deposit read it, the stored balance is the balance it
\* read plus the amount, and the account's ledger has exactly one more row,
\* the deposit with that amount.
C1_Deposit ==
    (Completed /\ last.alone /\ last.post.transaction_type = "deposit") =>
        /\ Account[last.account].balance = last.read + last.post.amount.value
        /\ OneRowAppended

\* a deposit of 0.01 on a balance of 0.01 has completed on its own
C1_Witness ==
    /\ Completed /\ last.alone /\ last.post.transaction_type = "deposit"
    /\ last.read = 1 /\ last.post.amount.value = 1
    /\ Account[last.account].balance = 2

\* C2: when a valid withdrawal of an amount not above the balance it read
\* completes with no other request having written to the account since, the
\* stored balance is the balance it read minus the amount, and the account's
\* ledger has exactly one more row, the withdrawal with that amount.
C2_Withdraw ==
    (/\ Completed /\ last.alone /\ last.post.transaction_type = "withdraw"
     /\ last.post.amount.value <= last.read) =>
        /\ Account[last.account].balance = last.read - last.post.amount.value
        /\ OneRowAppended

\* a withdrawal of 0.01 from a balance of 0.01 has completed on its own
C2_Witness ==
    /\ Completed /\ last.alone /\ last.post.transaction_type = "withdraw"
    /\ last.read = 1 /\ last.post.amount.value = 1
    /\ Account[last.account].balance = 0

\* C3 as claimed: the account.save() of a withdrawal of more than the balance
\* it read leaves every stored balance as it was, whatever other requests did.
C3_Unchanged ==
    [][(/\ last'.op = "transaction" /\ last'.status = "saved"
        /\ last'.post.transaction_type = "withdraw"
        /\ last'.post.amount.value > last'.read) => Account' = Account]_vars

\* C3, amended: when a valid withdrawal of more than the balance it read
\* completes with no other request having written to the account since, the
\* stored balance is the balance it read, the request has been answered with
\* the redirect to home, and the account's ledger has one more row, the
\* withdrawal with the attempted amount.
C3_Insufficient ==
    (/\ Completed /\ last.alone /\ last.post.transaction_type = "withdraw"
     /\ last.post.amount.value > last.read) =>
        /\ Account[last.account].balance = last.read
        /\ req[last.client] = Idle
        /\ OneRowAppended

\* a withdrawal of 0.01 from a balance of 0.00 has completed on its own
C3_Witness ==
    /\ Completed /\ last.alone /\ last.post.transaction_type = "withdraw"
    /\ last.read = 0 /\ last.post.amount.value = 1
    /\ Account[last.account].balance = 0
    /\ LastRow.transaction_type = "withdraw" /\ LastRow.amount = 1

\* C4: right after the account.save() of a request whose withdraw branch
\* subtracted the amount, the stored balance is not negative, whatever
\* requests came before or are interleaved with it.
C4_NotNegative ==
    (Saved /\ last.branch = "subtract") => Account[last.account].balance >= 0

\* a withdrawal that subtracted has saved while another request was writing
\* to the account, and one that found a negative balance has saved
C4_Witness ==
    /\ Saved /\ last.branch = "subtract"
    /\ ~last.alone \/ last.read < 0

\* C5 as claimed: every row of the ledger has a positive amount.
C5_Positive ==
    \A i \in 1..Len(Transaction) : Transaction[i].amount > 0

\* C8 as claimed: the transactions the home view lists have strictly
\* descending created_at.
C8_Strictly ==
    (last.op = "home" /\ last.status = "render") =>
        \A i \in 1..(Len(last.transactions) - 1) :
            last.transactions[i].created_at > last.transactions[i + 1].created_at

\* C8, amended: the home view lists each transaction of the account once, and
\* no listed row has a created_at earlier than that of the row after it; rows
\* created at the same clock value are adjacent, in either order.
C8_Descending ==
    (last.op = "home" /\ last.status = "render") =>
        /\ Len(last.transactions) = Cardinality(TransactionsOf(last.account[1].id))
        /\ \A i \in 1..Len(last.transactions) :
              /\ last.transactions[i].account = last.account[1].id
              /\ \A j \in 1..Len(last.transactions) :
                    i # j => last.transactions[i].id # last.transactions[j].id
        /\ \A i \in 1..(Len(last.transactions) - 1) :
              last.transactions[i].created_at >= last.transactions[i + 1].created_at

\* the home view has listed two transactions created at different times
C8_Witness ==
    /\ last.op = "home" /\ last.status = "render"
    /\ Len(last.transactions) = 2
    /\ last.transactions[1].created_at > last.transactions[2].created_at
    /\ last.transactions[1].id > last.transactions[2].id

\* the balance an account gets from 0.00 by the requests of the given rows,
\* one after the other
Serial2(r1, r2) ==
    apply_transaction(apply_transaction(0, r1.transaction_type, r1.amount),
                      r2.transaction_type, r2.amount)

\* C9: an account.save() stores the balance the request read, changed by the
\* request's own branch, also when another request has written to the account
\* since the read: what the other request stored is overwritten.
C9_LastWriterWins ==
    (Saved /\ ~last.alone) =>
        Account[last.account].balance =
            last.read + (CASE last.branch = "add" -> last.post.amount.value
                           [] last.branch = "subtract" -> 0 - last.post.amount.value
                           [] OTHER -> 0)

\* two deposits into one account have completed, both rows are in the ledger,
\* and the stored balance is the result of neither serial order
C9_Witness ==
    /\ Completed /\ ~last.alone
    /\ \A c \in Clients : req[c] = Idle
    /\ Len(Transaction) = 2
    /\ \A i \in 1..2 : /\ Transaction[i].account = last.account
                        /\ Transaction[i].transaction_type = "deposit"
                        /\ Transaction[i].amount > 0
    /\ Account[last.account].balance # Serial2(Transaction[1], Transaction[2])
    /\ Account[last.account].balance # Serial2(Transaction[2], Transaction[1])

\* C10: a step of a transaction request of a client logged in as u leaves the
\* account rows of every other user and the ledger rows there are as they
\* were, and a row it appends belongs to u's account; a request answered with
\* the form, with the form's errors, with the redirect to login or with an
\* error changes no table and leaves nothing in flight; and the requests in
\* flight are POSTs of a transaction_type among the choices and a well-formed
\* amount.
C10_Frame ==
    /\ [][(last'.op = "transaction") =>
            /\ Len(Account') = Len(Account)
            /\ \A i \in 1..Len(Account) :
                  Account[i].user # session[last'.client] => Account'[i] = Account[i]
            /\ \A i \in 1..Len(Transaction) : Transaction'[i] = Transaction[i]
            /\ Len(Transaction') \in {Len(Transaction), Len(Transaction) + 1}
            /\ Len(Transaction') > Len(Transaction) =>
                  Account[Transaction'[Len(Transaction')].account].user
                      = session[last'.client]
            /\ last'.status \in {"render", "form_errors", "redirect_login", "error"} =>
                  /\ Account' = Account
                  /\ Transaction' = Transaction
                  /\ req' = req]_vars
    /\ [](\A c \in Clients : req[c].view = "transaction" =>
            /\ req[c].post.method = "POST"
            /\ req[c].post.transaction_type \in {"deposit", "withdraw"}
            /\ req[c].post.amount.wellformed
            /\ Account[req[c].account.id].user = session[c])

\* alice's request has completed while bob has a balance and a ledger row
C10_Witness ==
    /\ Completed /\ session[last.client] = "alice"
    /\ \E i \in 1..Len(Account) : Account[i].user = "bob" /\ Account[i].balance # 0
    /\ \E i \in 1..Len(Transaction) : Account[Transaction[i].account].user = "bob"

\* the username has a row in User
Registered(u) == \E x \in User : x.username = u

\* a registration of the username is between its form.save() and its
\* Account.objects.create
Creating(u) ==
    \E c \in Clients :
        req[c].view = "register" /\ req[c].pc = "create" /\ req[c].username = u

\* C6: a user whose registration has completed has exactly one Account, and
\* nobody else has any; right after the registration's redirect that Account
\* has balance 0.00 and the client is logged in as the user; a username has at
\* most one User row; and a registration answered with the form (a GET or an
\* invalid form) or with an error creates no Account and no User.
C6_OneAccount ==
    /\ [](/\ \A u \in Usernames :
                Cardinality(AccountsOf(u))
                    = IF Registered(u) /\ ~Creating(u) THEN 1 ELSE 0
          /\ \A x, y \in User : x.username = y.username => x = y
          /\ (last.op = "register" /\ last.status = "redirect_home") =>
                /\ \A i \in AccountsOf(last.username) : Account[i].balance = 0
                /\ session[last.client] = last.username)
    /\ [][(last'.op = "register" /\ last'.status \in {"render", "error"}) =>
            Account' = Account /\ User' = User]_vars

\* the second user has just registered, each user has one Account, and the
\* ledger is not empty
C6_Witness ==
    /\ last.op = "register" /\ last.status = "redirect_home"
    /\ \A u \in Usernames : Registered(u) /\ Cardinality(AccountsOf(u)) = 1
    /\ Len(Transaction) > 0

\* C7: a request to the home or the transaction view by a client that is not
\* logged in is answered with the redirect to login, carries no account and no
\* transactions, and changes no table and leaves nothing in flight; a rendered
\* home page shows the account of the user the client is logged in as, and a
\* transaction request in flight works on the account of the user its client
\* is logged in as.
C7_LoginRequired ==
    /\ [](/\ (last.op \in {"home", "transaction"}
              /\ session[last.client] = AnonymousUser) =>
                last.status = "redirect_login"
          /\ (last.op = "home" /\ last.status # "render") =>
                last.account = <<>> /\ last.transactions = <<>>
          /\ (last.op = "home" /\ last.status = "render") =>
                /\ last.account[1].user = session[last.client]
                /\ \A i \in 1..Len(last.transactions) :
                      Account[last.transactions[i].account].user
                          = session[last.client]
          /\ \A c \in Clients : req[c].view = "transaction" =>
                /\ session[c] # AnonymousUser
                /\ req[c].user = session[c]
                /\ req[c].account.user = session[c])
    /\ [][(last'.op \in {"home", "transaction"}
           /\ session[last'.client] = AnonymousUser) =>
            UNCHANGED <<User, Account, Transaction, session, req>>]_vars

\* a client that has logged out asks for the home page of an account with a
\* balance and a ledger row, and is redirected
C7_Witness ==
    /\ last.op = "home" /\ last.status = "redirect_login"
    /\ session[last.client] = AnonymousUser
    /\ Len(Transaction) > 0
    /\ \E i \in 1..Len(Account) : Account[i].balance # 0

====
